---------------------------- MODULE Spec2Model ----------------------------
(***************************************************************************)
(* Apricity ML service: the inference pipeline (inference_pipeline.py) and *)
(* the HTTP server (predict_server.py) as a state machine.                 *)
(*                                                                         *)
(* Texts are strings (Len, SubSeq and \o work on them character by         *)
(* character).  Probabilities are fixed-point integers in units of         *)
(* 1/ProbUnit.  The two neural models and their tokenizers are external:   *)
(* their outputs are inputs of the actions, and every invocation is        *)
(* recorded in the call's trace.                                           *)
(***************************************************************************)
EXTENDS Integers, Sequences, FiniteSets, TLC

(***************************************************************************)
(* Bounds of the model.                                                    *)
(***************************************************************************)
\* number of labels the loaded classifier knows (a prefix of DEBERTA_LABELS)
NumLabels == 3
\* a text of the crisis-gate specification is a concatenation of at most
\* MaxPieces pieces
MaxPieces == 2
\* calls one process serves before the model stops receiving
MaxCalls == 2
\* a batch holds at most MaxBatch texts
MaxBatch == 2
\* a text of the normalizer specification is a concatenation of at most
\* MaxCleanPieces pieces
MaxCleanPieces == 3
\* a text of the lexicon specification is a concatenation of at most
\* MaxLexPieces pieces
MaxLexPieces == 3

(***************************************************************************)
(* Program constants.  Lengths are scaled down (the code's 500 < 1000 <    *)
(* 10000 keep their order); the code only ever compares a length against   *)
(* them or slices at them.                                                 *)
(***************************************************************************)
\* probabilities are integers in 0..ProbUnit, ProbUnit standing for 1.0
ProbUnit == 10000
\* the default of THRESHOLD = float(os.getenv("THRESHOLD", "0.5"))
DEFAULT_THRESHOLD == 5000
\* the literal 0.5 of the server's decision code
SERVER_THRESHOLD == 5000
\* clean_text: if len(text) > 10000: text = text[:10000]
CLEAN_CAP == 24
\* generate_response: text[:500]
PROMPT_TEXT_CAP == 8
\* PredictRequest.text: min_length=1, max_length=10000
PREDICT_MAX_LENGTH == 24
\* EmotionRequest / SupportRequest / FullPipelineRequest .text: max_length=1000
API_MAX_LENGTH == 16
\* float32 sigmoid returns exactly 1.0 for integer logits from this one on
\* (exp(-x) below half the float32 spacing under 1.0, 2^-25)
SIGMOID_SATURATION == 18

None == "None"

DEBERTA_LABELS == <<"anger", "fear", "joy", "sadness", "surprise">>

SELF_HARM_KEYWORDS ==
    << "suicide", "kill myself", "end my life", "harm myself", "self harm",
       "self-harm", "overdose", "no reason to live", "goodbye forever",
       "want to die" >>

\* the banner's leading warning sign is written [!]
CRISIS_BANNER ==
    "[!] If you're in immediate danger or thinking about harming yourself, "
    \o "please contact local emergency services right now and reach out to someone you trust. "
    \o "You deserve help and you're not alone. "
    \o "National Suicide Prevention Lifeline: 988"

(***************************************************************************)
(* Strings.                                                                *)
(***************************************************************************)
CharAt(s, i) == SubSeq(s, i, i)

UpperAlphabet == "ABCDEFGHIJKLMNOPQRSTUVWXYZ"
LowerAlphabet == "abcdefghijklmnopqrstuvwxyz"

\* str.isspace() of one character
IsSpace(c) == c \in {" ", "\t", "\n"}

\* str.lower() of one character
LowerChar(c) ==
    IF \E i \in 1..26 : CharAt(UpperAlphabet, i) = c
    THEN CharAt(LowerAlphabet, CHOOSE i \in 1..26 : CharAt(UpperAlphabet, i) = c)
    ELSE c

RECURSIVE StrLower(_)
\* str.lower()
StrLower(s) ==
    IF s = "" THEN ""
    ELSE LowerChar(CharAt(s, 1)) \o StrLower(SubSeq(s, 2, Len(s)))

RECURSIVE LStrip(_)
LStrip(s) ==
    IF s # "" /\ IsSpace(CharAt(s, 1)) THEN LStrip(SubSeq(s, 2, Len(s))) ELSE s

RECURSIVE RStrip(_)
RStrip(s) ==
    IF s # "" /\ IsSpace(CharAt(s, Len(s))) THEN RStrip(SubSeq(s, 1, Len(s) - 1)) ELSE s

\* str.strip()
StrStrip(s) == RStrip(LStrip(s))

RECURSIVE SplitFrom(_, _, _)
\* the words of s from position i on, cur being the word read so far
SplitFrom(s, i, cur) ==
    IF i > Len(s) THEN (IF cur = "" THEN << >> ELSE << cur >>)
    ELSE IF IsSpace(CharAt(s, i))
         THEN (IF cur = "" THEN << >> ELSE << cur >>) \o SplitFrom(s, i + 1, "")
         ELSE SplitFrom(s, i + 1, cur \o CharAt(s, i))

\* str.split(): the maximal runs of non-whitespace characters
StrSplit(s) == SplitFrom(s, 1, "")

RECURSIVE StrJoin(_, _)
\* sep.join(parts)
StrJoin(sep, parts) ==
    IF parts = << >> THEN ""
    ELSE IF Len(parts) = 1 THEN parts[1]
    ELSE parts[1] \o sep \o StrJoin(sep, Tail(parts))

\* needle in hay
StrContains(hay, needle) ==
    \E i \in 1..(Len(hay) - Len(needle) + 1) :
        SubSeq(hay, i, i + Len(needle) - 1) = needle

\* s[:n]
StrPrefix(s, n) == SubSeq(s, 1, IF Len(s) < n THEN Len(s) ELSE n)


(***************************************************************************)
(* Text normalizer of the inference pipeline.                              *)
(***************************************************************************)
\* faulty variant: the length cap is not applied
clean_text_uncapped(text) ==
    IF text = "" THEN "" ELSE StrJoin(" ", StrSplit(StrStrip(text)))

\* inference_pipeline.clean_text
clean_text(text) ==
    IF text = "" THEN ""
    ELSE LET stripped  == StrStrip(text)
             collapsed == StrJoin(" ", StrSplit(stripped))
         IN  IF Len(collapsed) > CLEAN_CAP THEN StrPrefix(collapsed, CLEAN_CAP) ELSE collapsed

(***************************************************************************)
(* Lexicon preprocessing of the server (text_preprocessing_pipeline).      *)
(* The module's strings are ASCII without the backtick: of the non-ASCII   *)
(* characters the dictionaries name, the acute accent U+00B4 is kept, as   *)
(* ACUTE; entries made of other characters outside the alphabet never      *)
(* match a text of the alphabet and are left out.                          *)
(***************************************************************************)
\* U+00B4: not whitespace, not a word character, not ASCII punctuation
ACUTE == "\f"

\* contraction_mapping, in the dict's order
contraction_mapping ==
    << << "ain't", "is not" >>, << "aren't", "are not" >>, << "can't", "cannot" >>,
       << "'cause", "because" >>, << "could've", "could have" >>, << "couldn't", "could not" >>,
       << "didn't", "did not" >>, << "doesn't", "does not" >>, << "don't", "do not" >>,
       << "hadn't", "had not" >>, << "hasn't", "has not" >>, << "haven't", "have not" >>,
       << "he'd", "he would" >>, << "he'll", "he will" >>, << "he's", "he is" >>,
       << "how'd", "how did" >>, << "how'd'y", "how do you" >>, << "how'll", "how will" >>,
       << "how's", "how is" >>, << "I'd", "I would" >>, << "I'd've", "I would have" >>,
       << "I'll", "I will" >>, << "I'll've", "I will have" >>, << "I'm", "I am" >>,
       << "I've", "I have" >>, << "i'd", "i would" >>, << "i'd've", "i would have" >>,
       << "i'll", "i will" >>, << "i'll've", "i will have" >>, << "i'm", "i am" >>,
       << "i've", "i have" >>, << "isn't", "is not" >>, << "it'd", "it would" >>,
       << "it'd've", "it would have" >>, << "it'll", "it will" >>,
       << "it'll've", "it will have" >>, << "it's", "it is" >>, << "let's", "let us" >>,
       << "ma'am", "madam" >>, << "mayn't", "may not" >>, << "might've", "might have" >>,
       << "mightn't", "might not" >>, << "mightn't've", "might not have" >>,
       << "must've", "must have" >>, << "mustn't", "must not" >>,
       << "mustn't've", "must not have" >>, << "needn't", "need not" >>,
       << "needn't've", "need not have" >>, << "o'clock", "of the clock" >>,
       << "oughtn't", "ought not" >>, << "oughtn't've", "ought not have" >>,
       << "shan't", "shall not" >>, << "sha'n't", "shall not" >>,
       << "shan't've", "shall not have" >>, << "she'd", "she would" >>,
       << "she'd've", "she would have" >>, << "she'll", "she will" >>,
       << "she'll've", "she will have" >>, << "she's", "she is" >>,
       << "should've", "should have" >>, << "shouldn't", "should not" >>,
       << "shouldn't've", "should not have" >>, << "so've", "so have" >>, << "so's", "so as" >>,
       << "this's", "this is" >>, << "that'd", "that would" >>,
       << "that'd've", "that would have" >>, << "that's", "that is" >>,
       << "there'd", "there would" >>, << "there'd've", "there would have" >>,
       << "there's", "there is" >>, << "here's", "here is" >>, << "they'd", "they would" >>,
       << "they'd've", "they would have" >>, << "they'll", "they will" >>,
       << "they'll've", "they will have" >>, << "they're", "they are" >>,
       << "they've", "they have" >>, << "to've", "to have" >>, << "wasn't", "was not" >>,
       << "we'd", "we would" >>, << "we'd've", "we would have" >>, << "we'll", "we will" >>,
       << "we'll've", "we will have" >>, << "we're", "we are" >>, << "we've", "we have" >>,
       << "weren't", "were not" >>, << "what'll", "what will" >>,
       << "what'll've", "what will have" >>, << "what're", "what are" >>,
       << "what's", "what is" >>, << "what've", "what have" >>, << "when's", "when is" >>,
       << "when've", "when have" >>, << "where'd", "where did" >>, << "where's", "where is" >>,
       << "where've", "where have" >>, << "who'll", "who will" >>,
       << "who'll've", "who will have" >>, << "who's", "who is" >>, << "who've", "who have" >>,
       << "why's", "why is" >>, << "why've", "why have" >>, << "will've", "will have" >>,
       << "won't", "will not" >>, << "won't've", "will not have" >>,
       << "would've", "would have" >>, << "wouldn't", "would not" >>,
       << "wouldn't've", "would not have" >>, << "y'all", "you all" >>,
       << "y'all'd", "you all would" >>, << "y'all'd've", "you all would have" >>,
       << "y'all're", "you all are" >>, << "y'all've", "you all have" >>,
       << "you'd", "you would" >>, << "you'd've", "you would have" >>, << "you'll", "you will" >>,
       << "you'll've", "you will have" >>, << "you're", "you are" >>, << "you've", "you have" >>,
       << "u.s", "america" >>, << "e.g", "for example" >> >>

\* punct, the entries within the alphabet, in the list's order
punct ==
    << ",", ".", "\"", ":", ")", "(", "-", "!", "?", "|", ";", "'", "$", "&", "/", "[", "]", ">", "%", "=", "#", "*", "+", "\\", "~", "@", "_", "{", "}", "^", "<", "\"", "\"" >>

\* punct_mapping, the entries within the alphabet, in the dict's order
punct_mapping ==
    << << "'", "'" >>, << ACUTE, "'" >>, << "_", "-" >>, << "\"", "\"" >>, << "!", " " >> >>

\* mispell_dict, in the dict's order
mispell_dict ==
    << << "colour", "color" >>, << "centre", "center" >>, << "favourite", "favorite" >>,
       << "travelling", "traveling" >>, << "counselling", "counseling" >>,
       << "theatre", "theater" >>, << "cancelled", "canceled" >>, << "labour", "labor" >>,
       << "organisation", "organization" >>, << "wwii", "world war 2" >>,
       << "citicise", "criticize" >>, << "youtu ", "youtube " >>, << "Qoura", "Quora" >>,
       << "sallary", "salary" >>, << "Whta", "What" >>, << "narcisist", "narcissist" >>,
       << "howdo", "how do" >>, << "whatare", "what are" >>, << "howcan", "how can" >>,
       << "howmuch", "how much" >>, << "howmany", "how many" >>, << "whydo", "why do" >>,
       << "doI", "do I" >>, << "theBest", "the best" >>, << "howdoes", "how does" >>,
       << "mastrubation", "masturbation" >>, << "mastrubate", "masturbate" >>,
       << "mastrubating", "masturbating" >>, << "pennis", "penis" >>, << "Etherium", "Ethereum" >>,
       << "narcissit", "narcissist" >>, << "bigdata", "big data" >>, << "2k17", "2017" >>,
       << "2k18", "2018" >>, << "qouta", "quota" >>, << "exboyfriend", "ex boyfriend" >>,
       << "airhostess", "air hostess" >>, << "whst", "what" >>, << "watsapp", "whatsapp" >>,
       << "demonitisation", "demonetization" >>, << "demonitization", "demonetization" >>,
       << "demonetisation", "demonetization" >> >>

\* string.punctuation without the backtick
AsciiPunctuation == "!\"#$%&'()*+,-./:;<=>?@[\\]^_{|}~"

Digits == "0123456789"

\* the characters of a string
Chars(s) == {CharAt(s, i) : i \in 1..Len(s)}

\* \w on the alphabet
WordChars == Chars(UpperAlphabet) \cup Chars(LowerAlphabet) \cup Chars(Digits) \cup {"_"}

RECURSIVE ReplaceFrom(_, _, _, _)
\* str.replace from position i on: the occurrences of old left to right, not overlapping
ReplaceFrom(s, old, new, i) ==
    IF i + Len(old) - 1 > Len(s) THEN SubSeq(s, i, Len(s))
    ELSE IF SubSeq(s, i, i + Len(old) - 1) = old
         THEN new \o ReplaceFrom(s, old, new, i + Len(old))
         ELSE CharAt(s, i) \o ReplaceFrom(s, old, new, i + 1)

\* s.replace(old, new), old not empty
StrReplace(s, old, new) == IF StrContains(s, old) THEN ReplaceFrom(s, old, new, 1) ELSE s

\* the body of one of the loops over a dictionary or a list, for one entry
LoopBody(loop, text, entry) ==
    CASE loop = "contractions" ->
             \* if " " + word + " " in text: text = text.replace(" " + word + " ", " " + mapping[word] + " ")
             IF StrContains(text, " " \o entry[1] \o " ")
             THEN ReplaceFrom(text, " " \o entry[1] \o " ", " " \o entry[2] \o " ", 1)
             ELSE text
      [] loop = "mapping" ->
             \* text = text.replace(p, mapping[p])
             StrReplace(text, entry[1], entry[2])
      [] loop = "punct" ->
             \* text = text.replace(p, f' {p} ')
             StrReplace(text, entry, " " \o entry \o " ")

RECURSIVE Loop(_, _, _, _, _)
\* for entry in entries[lo..hi]: text = body(text, entry), the entries in order.
\* The range is taken in two halves, the first finished before the second
\* begins, so that the evaluation nests to the logarithm of its length; no
\* key is empty, so an empty text stays empty.
Loop(loop, text, entries, lo, hi) ==
    IF lo > hi THEN text
    ELSE IF lo = hi THEN LoopBody(loop, text, entries[lo])
    ELSE LET mid   == (lo + hi) \div 2
             first == Loop(loop, text, entries, lo, mid)
         IN  IF first = "" THEN "" ELSE Loop(loop, first, entries, mid + 1, hi)

RECURSIVE ClosingAt(_, _, _)
\* where '.*?' followed by the character c ends when tried from position i: the
\* first c not preceded by a newline, 0 if there is none
ClosingAt(s, c, i) ==
    IF i > Len(s) THEN 0
    ELSE IF CharAt(s, i) = c THEN i
    ELSE IF CharAt(s, i) = "\n" THEN 0
    ELSE ClosingAt(s, c, i + 1)

RECURSIVE RunEnd(_, _, _, _)
\* the last position of the run, starting at i, of characters whose membership
\* in chars is `member` (i - 1 when the run is empty)
RunEnd(s, i, chars, member) ==
    IF i <= Len(s) /\ ((CharAt(s, i) \in chars) = member)
    THEN RunEnd(s, i + 1, chars, member) ELSE i - 1

RECURSIVE RemoveDelimited(_, _, _, _, _)
\* re.sub(open '.*?' close, '', s), or open '.*?' close '+' when greedy, from position i on
RemoveDelimited(s, open, close, greedy, i) ==
    IF i > Len(s) THEN ""
    ELSE IF CharAt(s, i) = open /\ ClosingAt(s, close, i + 1) # 0
         THEN LET j == ClosingAt(s, close, i + 1)
                  e == IF greedy THEN RunEnd(s, j, {close}, TRUE) ELSE j
              IN  RemoveDelimited(s, open, close, greedy, e + 1)
         ELSE CharAt(s, i) \o RemoveDelimited(s, open, close, greedy, i + 1)

\* where 'https?://\S+|www\.\S+' ends when it matches at position i, 0 if it does not
UrlEnd(s, i) ==
    LET After(prefix) ==
            IF i + Len(prefix) - 1 <= Len(s) /\ SubSeq(s, i, i + Len(prefix) - 1) = prefix
            THEN RunEnd(s, i + Len(prefix), {" ", "\t", "\n"}, FALSE)
            ELSE 0
        Matched(prefix) == After(prefix) >= i + Len(prefix)
    IN  IF Matched("http://") THEN After("http://")
        ELSE IF Matched("https://") THEN After("https://")
        ELSE IF Matched("www.") THEN After("www.")
        ELSE 0

RECURSIVE RemoveUrls(_, _)
\* re.sub('https?://\S+|www\.\S+', '', s) from position i on
RemoveUrls(s, i) ==
    IF i > Len(s) THEN ""
    ELSE IF UrlEnd(s, i) # 0 THEN RemoveUrls(s, UrlEnd(s, i) + 1)
    ELSE CharAt(s, i) \o RemoveUrls(s, i + 1)

RECURSIVE RemoveChars(_, _)
\* re.sub('[chars]', '', s)
RemoveChars(s, chars) ==
    IF s = "" THEN ""
    ELSE (IF CharAt(s, 1) \in chars THEN "" ELSE CharAt(s, 1)) \o RemoveChars(SubSeq(s, 2, Len(s)), chars)

RECURSIVE RemoveDigitWords(_, _)
\* re.sub('\w*\d\w*', '', s) from position i on: every maximal run of word
\* characters that holds a digit goes
RemoveDigitWords(s, i) ==
    IF i > Len(s) THEN ""
    ELSE IF CharAt(s, i) \in WordChars
         THEN LET e   == RunEnd(s, i, WordChars, TRUE)
                  run == SubSeq(s, i, e)
              IN  (IF Chars(run) \cap Chars(Digits) # {} THEN "" ELSE run) \o RemoveDigitWords(s, e + 1)
         ELSE CharAt(s, i) \o RemoveDigitWords(s, i + 1)

\* predict_server.clean_text (emoji.demojize leaves a text of the alphabet as it is)
server_clean_text(text) ==
    LET no_colons   == RemoveDelimited(text, ":", ":", FALSE, 1)
        lowered     == StrLower(no_colons)
        no_brackets == RemoveDelimited(lowered, "[", "]", FALSE, 1)
        no_urls     == RemoveUrls(no_brackets, 1)
        no_tags     == RemoveDelimited(no_urls, "<", ">", TRUE, 1)
        no_punct    == RemoveChars(no_tags, Chars(AsciiPunctuation))
        no_newlines == RemoveChars(no_punct, {"\n"})
    IN  RemoveDigitWords(no_newlines, 1)

\* predict_server.clean_contractions
clean_contractions(text, mapping) ==
    Loop("contractions", StrReplace(text, ACUTE, "'"), mapping, 1, Len(mapping))

\* predict_server.clean_special_chars (its specials are outside the alphabet)
clean_special_chars(text, puncts, mapping) ==
    Loop("punct", Loop("mapping", text, mapping, 1, Len(mapping)), puncts, 1, Len(puncts))

\* predict_server.correct_spelling
correct_spelling(x, dic) == Loop("mapping", x, dic, 1, Len(dic))

\* predict_server.remove_space
remove_space(text) == StrJoin(" ", StrSplit(StrStrip(text)))

\* one stage of the normalizer applied to a text
Stage(fn, text) ==
    CASE fn = "clean_text"          -> server_clean_text(text)
      [] fn = "clean_contractions"  -> clean_contractions(text, contraction_mapping)
      [] fn = "clean_special_chars" -> clean_special_chars(text, punct, punct_mapping)
      [] fn = "correct_spelling"    -> correct_spelling(text, mispell_dict)
      [] fn = "remove_space"        -> remove_space(text)

RECURSIVE StageTrace(_, _)
\* text = stage(text) for the stages in order: the calls made
StageTrace(text, order) ==
    IF order = << >> THEN << >>
    ELSE LET ret == Stage(Head(order), text)
         IN  << [fn |-> Head(order), arg |-> text, ret |-> ret] >> \o StageTrace(ret, Tail(order))

\* faulty variant: special characters are mapped before contractions are expanded
text_preprocessing_pipeline_mapping_first(text) ==
    StageTrace(text, << "clean_text", "clean_special_chars", "clean_contractions",
                        "correct_spelling", "remove_space" >>)

\* predict_server.text_preprocessing_pipeline: the calls it makes; the text it
\* returns is what the last call returned
text_preprocessing_pipeline(text) ==
    StageTrace(text, << "clean_text", "clean_contractions", "clean_special_chars",
                        "correct_spelling", "remove_space" >>)

(***************************************************************************)
(* Crisis gate.                                                            *)
(***************************************************************************)
\* faulty variant: the text is not lowercased before the keywords are searched
check_crisis_keywords_case_sensitive(text) ==
    \E k \in 1..Len(SELF_HARM_KEYWORDS) : StrContains(text, SELF_HARM_KEYWORDS[k])

\* inference_pipeline.check_crisis_keywords
check_crisis_keywords(text) ==
    LET text_lower == StrLower(text)
    IN  \E k \in 1..Len(SELF_HARM_KEYWORDS) : StrContains(text_lower, SELF_HARM_KEYWORDS[k])

\* predict_server.needs_crisis_message
needs_crisis_message(text) ==
    LET text_lower == StrLower(text)
    IN  \E k \in 1..Len(SELF_HARM_KEYWORDS) : StrContains(text_lower, SELF_HARM_KEYWORDS[k])

(***************************************************************************)
(* Emotion decision policy.  A logit vector is a function 1..n -> Int.     *)
(***************************************************************************)
\* the logits the classifier stub may return for one label
LogitLevels == {-1, 0, 1, 20, 30}

\* torch.sigmoid in float32, rounded to 1/ProbUnit: monotone, and exactly 1.0
\* from SIGMOID_SATURATION on, so distinct logits can share a probability
Sigmoid(x) ==
    CASE x >= SIGMOID_SATURATION -> ProbUnit
      [] x = 2  -> 8808
      [] x = 1  -> 7311
      [] x = 0  -> 5000
      [] x = -1 -> 2689
      [] x = -2 -> 1192

\* the largest element of a non-empty vector
MaxOf(v) == CHOOSE m \in {v[i] : i \in DOMAIN v} : \A i \in DOMAIN v : v[i] <= m

\* faulty variant: the index of the minimum
ArgMin(v) == CHOOSE i \in DOMAIN v : \A j \in DOMAIN v : v[i] <= v[j]

\* np.argmax / torch.argmax: the first index holding the maximum
ArgMax(v) == CHOOSE i \in DOMAIN v : v[i] = MaxOf(v) /\ \A j \in DOMAIN v : v[j] = MaxOf(v) => i <= j

RECURSIVE SelectLabels(_, _, _)
\* [names[i] for i, pred in enumerate(predictions) if pred == 1], from index i on
SelectLabels(names, predictions, i) ==
    IF i > Len(predictions) THEN << >>
    ELSE IF predictions[i] = 1
         THEN << names[i] >> \o SelectLabels(names, predictions, i + 1)
         ELSE SelectLabels(names, predictions, i + 1)

\* faulty variant: < in place of >
PredictionsBelow(probs, threshold) == [i \in DOMAIN probs |-> IF probs[i] < threshold THEN 1 ELSE 0]

\* faulty variant: >= in place of >
PredictionsGeq(probs, threshold) == [i \in DOMAIN probs |-> IF probs[i] >= threshold THEN 1 ELSE 0]

\* (sigmoid > threshold).int()
Predictions(probs, threshold) == [i \in DOMAIN probs |-> IF probs[i] > threshold THEN 1 ELSE 0]

\* faulty variant: the fallback to [top_label] is left out
WithFallbackDropped(detected, top_label) == detected

\* faulty variant: the fallback is a fixed label
WithFallbackFixed(detected, top_label) == IF detected = << >> THEN << DEBERTA_LABELS[1] >> ELSE detected

\* if not detected: detected = [top_label]
WithFallback(detected, top_label) == IF detected = << >> THEN << top_label >> ELSE detected

\* {label_names[i]: float(probs[i]) for i in range(len(label_names))}
ScoresDict(names, probs) ==
    [l \in {names[i] : i \in DOMAIN names} |->
        probs[CHOOSE i \in DOMAIN names : names[i] = l /\ \A j \in DOMAIN names : names[j] = l => j <= i]]

\* inference_pipeline.infer, steps 4 to 8 (names covers the logits)
InferDecision(names, logits, threshold) ==
    LET probs       == [i \in DOMAIN logits |-> Sigmoid(logits[i])]
        predictions == Predictions(probs, threshold)
        detected    == SelectLabels(names, predictions, 1)
        top_idx     == ArgMax(probs)
        top_label   == names[top_idx]
        confidence  == probs[top_idx]
    IN  [top_label    |-> top_label,
         confidence   |-> confidence,
         all_emotions |-> WithFallback(detected, top_label),
         scores       |-> ScoresDict(names, probs)]

\* predict_server.get_emotion_scores_dict, the decision after the model call
\* (both model branches run the same statements)
ScoresDictDecision(names, logits) ==
    LET probs       == [i \in DOMAIN logits |-> Sigmoid(logits[i])]
        scores_dict == ScoresDict(names, probs)
        predictions == Predictions(probs, SERVER_THRESHOLD)
        detected    == SelectLabels(names, predictions, 1)
        max_index   == ArgMax(logits)
        top_label   == names[max_index]
        confidence  == probs[max_index]
    IN  [top_label    |-> top_label,
         confidence   |-> confidence,
         all_emotions |-> WithFallback(detected, top_label),
         scores       |-> scores_dict]

\* predict_server.detect_emotions, the decision after the model call
DetectDecision(names, logits) ==
    LET probs       == [i \in DOMAIN logits |-> Sigmoid(logits[i])]
        predictions == Predictions(probs, SERVER_THRESHOLD)
        detected0   == SelectLabels(names, predictions, 1)
        detected    == IF detected0 = << >> THEN << names[ArgMax(logits)] >> ELSE detected0
    IN  [emotions_str |-> StrJoin(", ", detected),
         confidence   |-> MaxOf(probs),
         all_emotions |-> detected]

(***************************************************************************)
(* State: the module globals of the running program and the last call.     *)
(***************************************************************************)
VARIABLES
    prog,                  \* "pipeline" (inference_pipeline.py) or "server" (predict_server.py)
    phase,                 \* "init", "started" (load_models has run), "serving", "failed"
    emotion_tokenizer,     \* None or "loaded"
    emotion_model,         \* None or "loaded"
    label_names,           \* the label list, << >> until loaded
    generation_tokenizer,  \* None or "loaded"
    generation_model,      \* None or "loaded"
    THRESHOLD,             \* the configured threshold, read from the environment at import
    served,                \* how many calls the process has completed
    pending,               \* the call being made: its operation and arguments, or None
    last                   \* the last completed call: its operation, arguments and outcome

globals == << emotion_tokenizer, emotion_model, label_names, generation_tokenizer, generation_model >>
vars == << prog, phase, emotion_tokenizer, emotion_model, label_names,
           generation_tokenizer, generation_model, THRESHOLD, served, pending, last >>

\* the label list of the loaded classifier
Labels == SubSeq(DEBERTA_LABELS, 1, NumLabels)

\* every logit vector the classifier stub may return
LogitVectors == [1..NumLabels -> LogitLevels]

\* the classifier call raises (in place of a logit vector)
Raise == << >>

\* the generator call raises (in place of the decoded text)
GenRaise == "<raise>"

\* an optional argument that is given
Some(x) == << x >>

(***************************************************************************)
(* Exceptions.                                                             *)
(***************************************************************************)
ErrModelNotLoaded      == [type |-> "RuntimeError", msg |-> "Model not loaded. Call load_models() first."]
ErrTokenizerNotLoaded  == [type |-> "RuntimeError", msg |-> "Tokenizer not loaded. Call load_models() first."]
ErrGenerationNotLoaded == [type |-> "RuntimeError", msg |-> "Generation model not loaded. Call load_models() first."]
ErrEmptyText           == [type |-> "ValueError", msg |-> "Empty text after cleaning"]
ErrIndex               == [type |-> "IndexError", msg |-> "list index out of range"]
ErrNoneNotCallable     == [type |-> "TypeError", msg |-> "'NoneType' object is not callable"]
ErrClassifierRaised    == [type |-> "Exception", msg |-> "emotion model call failed"]
ErrGeneratorRaised     == [type |-> "Exception", msg |-> "generation model call failed"]

\* the outcome of a call that raised
Raised(err, calls) == [status |-> "raised", error |-> err, value |-> None, calls |-> calls]

\* the outcome of a call that returned
Returned(value, calls) == [status |-> "returned", error |-> None, value |-> value, calls |-> calls]

(***************************************************************************)
(* inference_pipeline.py                                                   *)
(***************************************************************************)
\* one invocation of an external tokenizer or model: the text it was given and
\* what it gave back (Raise or GenRaise when the call raised)
Call(fn, arg, ret) == [fn |-> fn, arg |-> arg, ret |-> ret]

\* tokenize(cleaned_text) followed by emotion_model(**inputs)
ClassifierCalls(text, clsOut) ==
    << Call("emotion_tokenizer", text, "inputs"), Call("emotion_model", text, clsOut) >>

\* generation_tokenizer(prompt) followed by generation_model.generate(**inputs) and decode
GeneratorCalls(prompt, genOut) ==
    << Call("generation_tokenizer", prompt, "inputs"), Call("generation_model", prompt, genOut) >>

\* faulty variant: the emptiness check of infer is left out
InferNoEmptyCheck(text, threshold, clsOut) ==
    LET thr          == IF threshold = << >> THEN THRESHOLD ELSE threshold[1]
        cleaned_text == clean_text(text)
    IN  IF emotion_model = None THEN Raised(ErrModelNotLoaded, << >>)
        ELSE IF emotion_tokenizer = None THEN Raised(ErrTokenizerNotLoaded, << >>)
        ELSE IF clsOut = Raise THEN Raised(ErrClassifierRaised, ClassifierCalls(cleaned_text, clsOut))
        ELSE IF Len(label_names) < Len(clsOut) THEN Raised(ErrIndex, ClassifierCalls(cleaned_text, clsOut))
        ELSE Returned(InferDecision(label_names, clsOut, thr), ClassifierCalls(cleaned_text, clsOut))

\* inference_pipeline.infer; clsOut is what the classifier does when called
Infer(text, threshold, clsOut) ==
    LET thr          == IF threshold = << >> THEN THRESHOLD ELSE threshold[1]
        cleaned_text == clean_text(text)
    IN  IF emotion_model = None THEN Raised(ErrModelNotLoaded, << >>)
        ELSE IF cleaned_text = "" THEN Raised(ErrEmptyText, << >>)
        \* tokenize(cleaned_text)
        ELSE IF emotion_tokenizer = None THEN Raised(ErrTokenizerNotLoaded, << >>)
        ELSE IF clsOut = Raise THEN Raised(ErrClassifierRaised, ClassifierCalls(cleaned_text, clsOut))
        \* label_names[top_idx]
        ELSE IF Len(label_names) < Len(clsOut) THEN Raised(ErrIndex, ClassifierCalls(cleaned_text, clsOut))
        ELSE Returned(InferDecision(label_names, clsOut, thr), ClassifierCalls(cleaned_text, clsOut))

PromptHead ==
    "You are Apricity, a warm, non-judgmental mental health companion using CBT techniques."
    \o "\nDetected emotions: "
PromptText == ".\nUser text: \""
PromptTask == "\"\n\nTask: Write a concise, supportive reply addressing the user as "
PromptTail ==
    ". The reply must contain these three structured sections:"
    \o "\n1) **Validation (1 sentence):** Acknowledge the user's feelings, mentioning the primary detected emotions."
    \o "\n2) **Cognitive Reframing (1-2 sentences):** Gently identify a possible thinking pattern and offer a balanced alternative perspective."
    \o "\n3) **Actionable Step (1 sentence):** Suggest one practical, small CBT-style coping mechanism."
    \o "\n\nKeep the total reply concise (80-140 words). Ensure safety advice for self-harm is mentioned if needed."
    \o "\n\nReply:"

\* faulty variant: an empty user_name is rendered like a given one
WhoAlwaysNamed(user_name) == IF user_name = None THEN "friend" ELSE user_name \o ", "

\* who = f"{user_name}, " if user_name else "friend"
Who(user_name) == IF user_name = None \/ user_name = "" THEN "friend" ELSE user_name \o ", "

\* faulty variant: the prompt names the first detected label only
PipelinePromptTopOnly(text, emotions, user_name) ==
    "\n" \o PromptHead \o emotions[1] \o PromptText \o StrPrefix(text, PROMPT_TEXT_CAP)
        \o PromptTask \o Who(user_name) \o PromptTail \o "\n"

\* the prompt of inference_pipeline.generate_response
PipelinePrompt(text, emotions, user_name) ==
    "\n" \o PromptHead \o StrJoin(", ", emotions) \o PromptText \o StrPrefix(text, PROMPT_TEXT_CAP)
        \o PromptTask \o Who(user_name) \o PromptTail \o "\n"

\* inference_pipeline.generate_response; genOut is what the generator does when called
GenerateResponse(text, emotions, user_name, genOut) ==
    LET prompt == PipelinePrompt(text, emotions, user_name)
    IN  IF generation_model = None THEN Raised(ErrGenerationNotLoaded, << >>)
        ELSE IF generation_tokenizer = None THEN Raised(ErrNoneNotCallable, << >>)
        ELSE IF genOut = GenRaise THEN Raised(ErrGeneratorRaised, GeneratorCalls(prompt, genOut))
        ELSE Returned(StrStrip(genOut), GeneratorCalls(prompt, genOut))

\* faulty variant: the banner is appended instead of prepended
WithBannerAppended(response) == response \o "\n\n" \o CRISIS_BANNER

\* f"{crisis_banner}\n\n{response}"
WithBanner(response) == CRISIS_BANNER \o "\n\n" \o response

\* include_crisis_check and check_crisis_keywords(cleaned_text)
PipelineCrisis(text, cleaned_text, include_crisis_check) ==
    include_crisis_check /\ check_crisis_keywords(cleaned_text)

\* faulty variant: the generator is run before the classifier
FullPipelineGeneratorFirst(text, user_name, include_crisis_check, clsOut, genOut) ==
    LET cleaned_text == clean_text(text)
        gen          == GenerateResponse(cleaned_text, label_names, user_name, genOut)
        cls          == Infer(cleaned_text, << >>, clsOut)
    IN  IF gen.status = "raised" THEN gen
        ELSE IF cls.status = "raised" THEN Raised(cls.error, gen.calls \o cls.calls)
        ELSE Returned([input_text         |-> text,
                       cleaned_text       |-> cleaned_text,
                       emotion_results    |-> cls.value,
                       generated_response |-> gen.value,
                       crisis_detected    |-> PipelineCrisis(text, cleaned_text, include_crisis_check),
                       final_response     |-> IF PipelineCrisis(text, cleaned_text, include_crisis_check)
                                              THEN WithBanner(gen.value) ELSE gen.value],
                      gen.calls \o cls.calls)

\* faulty variant: a failure of the generator is swallowed and a result without
\* a response is returned
FullPipelinePartial(text, user_name, include_crisis_check, clsOut, genOut) ==
    LET cleaned_text    == clean_text(text)
        emotion_results == Infer(cleaned_text, << >>, clsOut)
    IN  IF emotion_results.status = "raised" THEN emotion_results
        ELSE
        LET gen == GenerateResponse(cleaned_text, emotion_results.value.all_emotions, user_name, genOut)
            response        == IF gen.status = "raised" THEN "" ELSE gen.value
            crisis_detected == PipelineCrisis(text, cleaned_text, include_crisis_check)
        IN  Returned([input_text         |-> text,
                      cleaned_text       |-> cleaned_text,
                      emotion_results    |-> emotion_results.value,
                      generated_response |-> response,
                      crisis_detected    |-> crisis_detected,
                      final_response     |-> IF crisis_detected THEN WithBanner(response)
                                             ELSE response],
                     emotion_results.calls \o gen.calls)

\* inference_pipeline.full_pipeline
FullPipeline(text, user_name, include_crisis_check, clsOut, genOut) ==
    LET cleaned_text    == clean_text(text)
        emotion_results == Infer(cleaned_text, << >>, clsOut)
    IN  IF emotion_results.status = "raised" THEN emotion_results
        ELSE
        LET gen == GenerateResponse(cleaned_text, emotion_results.value.all_emotions, user_name, genOut)
        IN  IF gen.status = "raised" THEN Raised(gen.error, emotion_results.calls \o gen.calls)
            ELSE
            LET response        == gen.value
                crisis_detected == PipelineCrisis(text, cleaned_text, include_crisis_check)
            IN  Returned([input_text         |-> text,
                          cleaned_text       |-> cleaned_text,
                          emotion_results    |-> emotion_results.value,
                          generated_response |-> response,
                          crisis_detected    |-> crisis_detected,
                          final_response     |-> IF crisis_detected THEN WithBanner(response)
                                                 ELSE response],
                         emotion_results.calls \o gen.calls)

\* the dict batch_infer stores for an item whose full_pipeline raised
ErrorMarker(text, err) == [input_text |-> text, error |-> err.msg]

RECURSIVE BatchAbortingFrom(_, _, _, _, _)
\* the loop of the faulty variant below
BatchAbortingFrom(texts, outs, i, results, calls) ==
    IF i > Len(texts) THEN Returned(results, calls)
    ELSE LET r == FullPipeline(texts[i], None, TRUE, outs[i][1], outs[i][2])
         IN  IF r.status = "raised"
             THEN Returned(Append(results, ErrorMarker(texts[i], r.error)), calls \o r.calls)
             ELSE BatchAbortingFrom(texts, outs, i + 1, Append(results, r.value), calls \o r.calls)

\* faulty variant: the loop stops at the first item that fails
BatchInferAborting(texts, outs) == BatchAbortingFrom(texts, outs, 1, << >>, << >>)

RECURSIVE BatchInferFrom(_, _, _, _, _)
\* the for loop of batch_infer from item i on: try full_pipeline(text), on any
\* exception append the error marker and go on
BatchInferFrom(texts, outs, i, results, calls) ==
    IF i > Len(texts) THEN Returned(results, calls)
    ELSE LET r == FullPipeline(texts[i], None, TRUE, outs[i][1], outs[i][2])
         IN  BatchInferFrom(texts, outs, i + 1,
                            Append(results, IF r.status = "raised"
                                            THEN ErrorMarker(texts[i], r.error)
                                            ELSE r.value),
                            calls \o r.calls)

\* inference_pipeline.batch_infer without an output path; outs[i] is what the
\* classifier and the generator give back when invoked for item i
BatchInfer(texts, outs) == BatchInferFrom(texts, outs, 1, << >>, << >>)

(***************************************************************************)
(* predict_server.py.  The DeBERTa and the RoBERTa branch of a helper run  *)
(* the same decision statements; they differ in the text handed to the     *)
(* tokenizer (the RoBERTa branch, modelled here, hands it the text as is). *)
(***************************************************************************)
\* predict_server.get_emotion_scores_dict
GetEmotionScoresDict(text, clsOut) ==
    IF clsOut = Raise THEN Raised(ErrClassifierRaised, ClassifierCalls(text, clsOut))
    ELSE Returned(ScoresDictDecision(label_names, clsOut), ClassifierCalls(text, clsOut))

\* predict_server.detect_emotions
DetectEmotions(text, clsOut) ==
    IF clsOut = Raise THEN Raised(ErrClassifierRaised, ClassifierCalls(text, clsOut))
    ELSE Returned(DetectDecision(label_names, clsOut), ClassifierCalls(text, clsOut))

\* predict_server.craft_prompt
CraftPrompt(user_text, emotion_str, user_name) ==
    StrStrip("\n" \o PromptHead \o emotion_str \o PromptText \o user_text
                  \o PromptTask \o Who(user_name) \o PromptTail \o "\n")

\* predict_server.generate_support_response
GenerateSupportResponse(user_text, emotion_str, user_name, genOut) ==
    LET prompt == CraftPrompt(user_text, emotion_str, user_name)
    IN  IF genOut = GenRaise THEN Raised(ErrGeneratorRaised, GeneratorCalls(prompt, genOut))
        ELSE Returned(genOut, GeneratorCalls(prompt, genOut))

\* faulty variant: a failure is answered with an empty result instead of an error
Http500AsEmptyResult(prefix, err, calls) ==
    Returned([code |-> 200, body |-> [response |-> "", has_crisis_warning |-> FALSE]], calls)

\* predict_server.health_check
HealthCheck ==
    LET models_loaded == /\ emotion_model # None
                         /\ emotion_tokenizer # None
                         /\ generation_model # None
                         /\ generation_tokenizer # None
    IN  Returned([code |-> 200,
                  body |-> [status               |-> IF models_loaded THEN "healthy" ELSE "unhealthy",
                            models_loaded        |-> models_loaded,
                            device               |-> "cpu",
                            emotion_model        |-> "RoBERTa GoEmotions (pre-trained)",
                            emotion_labels       |-> label_names,
                            emotion_labels_count |-> Len(label_names)]],
                 << >>)

\* raise HTTPException(status_code=500, detail=f"{prefix}{str(e)}")
Http500(prefix, err, calls) == Returned([code |-> 500, body |-> [detail |-> prefix \o err.msg]], calls)

\* the response model, serialized with status 200
Http200(body, calls) == Returned([code |-> 200, body |-> body], calls)

\* the framework's answer to a body that fails the request model
Http422 == Returned([code |-> 422, body |-> [detail |-> "validation error"]], << >>)

\* Field(..., min_length=1, max_length=max_length)
ValidText(text, max_length) == Len(text) >= 1 /\ Len(text) <= max_length

\* predict_server.predict_endpoint
PredictEndpoint(userId, diaryId, text, clsOut, genOut) ==
    LET sc == GetEmotionScoresDict(text, clsOut)
    IN  IF sc.status = "raised" THEN Http500("Error processing prediction: ", sc.error, sc.calls)
        ELSE
        LET emotions_str == StrJoin(", ", sc.value.all_emotions)
            gen          == GenerateSupportResponse(text, emotions_str, None, genOut)
        IN  IF gen.status = "raised"
            THEN Http500("Error processing prediction: ", gen.error, sc.calls \o gen.calls)
            ELSE Http200([diaryId            |-> diaryId,
                          userId             |-> userId,
                          top_label          |-> sc.value.top_label,
                          scores             |-> sc.value.scores,
                          summary_suggestion |-> IF needs_crisis_message(text)
                                                 THEN WithBanner(gen.value) ELSE gen.value,
                          confidence         |-> sc.value.confidence,
                          all_detected       |-> sc.value.all_emotions],
                         sc.calls \o gen.calls)

\* predict_server.detect_emotion_endpoint
DetectEmotionEndpoint(text, clsOut) ==
    LET det == DetectEmotions(text, clsOut)
    IN  IF det.status = "raised" THEN Http500("Error detecting emotions: ", det.error, det.calls)
        ELSE Http200([emotions     |-> det.value.emotions_str,
                      confidence   |-> det.value.confidence,
                      all_emotions |-> det.value.all_emotions],
                     det.calls)

\* faulty variant: the emotions are detected even when the request supplies them
GenerateSupportEndpointAlwaysDetecting(text, emotions, user_name, clsOut, genOut) ==
    LET det == DetectEmotions(text, clsOut)
    IN  IF det.status = "raised" THEN Http500("Error generating support: ", det.error, det.calls)
        ELSE
        LET has_crisis == needs_crisis_message(text)
            gen        == GenerateSupportResponse(text, det.value.emotions_str, user_name, genOut)
        IN  IF gen.status = "raised"
            THEN Http500("Error generating support: ", gen.error, det.calls \o gen.calls)
            ELSE Http200([response           |-> IF has_crisis THEN WithBanner(gen.value) ELSE gen.value,
                          has_crisis_warning |-> has_crisis],
                         det.calls \o gen.calls)

\* predict_server.generate_support_endpoint
GenerateSupportEndpoint(text, emotions, user_name, clsOut, genOut) ==
    LET provided == ~(emotions = None \/ emotions = "")
        det      == IF provided THEN Returned([emotions_str |-> emotions], << >>)
                    ELSE DetectEmotions(text, clsOut)
    IN  IF det.status = "raised" THEN Http500("Error generating support: ", det.error, det.calls)
        ELSE
        LET has_crisis == needs_crisis_message(text)
            gen        == GenerateSupportResponse(text, det.value.emotions_str, user_name, genOut)
        IN  IF gen.status = "raised"
            THEN Http500("Error generating support: ", gen.error, det.calls \o gen.calls)
            ELSE Http200([response           |-> IF has_crisis THEN WithBanner(gen.value) ELSE gen.value,
                          has_crisis_warning |-> has_crisis],
                         det.calls \o gen.calls)

\* predict_server.full_pipeline_endpoint
FullPipelineEndpoint(text, user_name, clsOut, genOut) ==
    LET det == DetectEmotions(text, clsOut)
    IN  IF det.status = "raised" THEN Http500("Error processing request: ", det.error, det.calls)
        ELSE
        LET has_crisis == needs_crisis_message(text)
            gen        == GenerateSupportResponse(text, det.value.emotions_str, user_name, genOut)
        IN  IF gen.status = "raised"
            THEN Http500("Error processing request: ", gen.error, det.calls \o gen.calls)
            ELSE Http200([emotions           |-> det.value.emotions_str,
                          confidence         |-> det.value.confidence,
                          response           |-> IF has_crisis THEN WithBanner(gen.value) ELSE gen.value,
                          has_crisis_warning |-> has_crisis],
                         det.calls \o gen.calls)

(***************************************************************************)
(* Startup.                                                                *)
(***************************************************************************)
\* the statements of load_models that can raise, in order, and "none"
LoadFailPoints ==
    << "emotion_tokenizer", "emotion_model", "labels", "generation_tokenizer", "generation_model", "none" >>

\* whether load_models got past the statement at position k
LoadedBefore(fail, k) == \E j \in 1..Len(LoadFailPoints) : LoadFailPoints[j] = fail /\ j > k

\* no call is being made
NoRequest == [op |-> "none", args |-> << >>]

\* no call has completed since the last one was received
NoCall == [op |-> "none", args |-> << >>, outcome |-> << >>]

Init ==
    /\ prog \in {"pipeline", "server"}
    /\ phase = "init"
    /\ emotion_tokenizer = None
    /\ emotion_model = None
    /\ label_names = << >>
    /\ generation_tokenizer = None
    /\ generation_model = None
    /\ THRESHOLD = DEFAULT_THRESHOLD
    /\ served = 0
    /\ pending = NoRequest
    /\ last = NoCall

\* inference_pipeline.load_models: every assignment up to the first failure
LoadModels ==
    /\ prog = "pipeline"
    /\ phase = "init"
    /\ pending.op = "none"
    /\ \E fail \in {LoadFailPoints[k] : k \in 1..Len(LoadFailPoints)} :
        /\ emotion_tokenizer' = IF LoadedBefore(fail, 1) THEN "loaded" ELSE None
        /\ emotion_model' = IF LoadedBefore(fail, 2) THEN "loaded" ELSE None
        /\ label_names' = IF LoadedBefore(fail, 3) THEN Labels ELSE << >>
        /\ generation_tokenizer' = IF LoadedBefore(fail, 4) THEN "loaded" ELSE None
        /\ generation_model' = IF LoadedBefore(fail, 5) THEN "loaded" ELSE None
        /\ last' = [op |-> "load_models", args |-> << >>,
                    outcome |-> Returned(fail = "none", << >>)]
    /\ phase' = "started"
    /\ UNCHANGED << prog, THRESHOLD, served, pending >>

\* predict_server.lifespan: the application serves only when every load succeeded
\* faulty variant: the application starts serving although a load failed
LifespanServingAnyway ==
    /\ prog = "server"
    /\ phase = "init"
    /\ \E fail \in {LoadFailPoints[k] : k \in 1..Len(LoadFailPoints)} :
        /\ emotion_tokenizer' = IF LoadedBefore(fail, 1) THEN "loaded" ELSE None
        /\ emotion_model' = IF LoadedBefore(fail, 2) THEN "loaded" ELSE None
        /\ label_names' = IF LoadedBefore(fail, 3) THEN Labels ELSE << >>
        /\ generation_tokenizer' = IF LoadedBefore(fail, 4) THEN "loaded" ELSE None
        /\ generation_model' = IF LoadedBefore(fail, 5) THEN "loaded" ELSE None
    /\ phase' = "serving"
    /\ pending.op = "none"
    /\ UNCHANGED << prog, THRESHOLD, served, pending, last >>

\* predict_server.lifespan (the branch that loads the pre-trained classifier):
\* every assignment up to the first failure; the exception is re-raised before
\* the yield, so the application serves only when every load succeeded
Lifespan ==
    /\ prog = "server"
    /\ phase = "init"
    /\ \E fail \in {LoadFailPoints[k] : k \in 1..Len(LoadFailPoints)} :
        /\ emotion_tokenizer' = IF LoadedBefore(fail, 1) THEN "loaded" ELSE None
        /\ emotion_model' = IF LoadedBefore(fail, 2) THEN "loaded" ELSE None
        /\ label_names' = IF LoadedBefore(fail, 3) THEN Labels ELSE << >>
        /\ generation_tokenizer' = IF LoadedBefore(fail, 4) THEN "loaded" ELSE None
        /\ generation_model' = IF LoadedBefore(fail, 5) THEN "loaded" ELSE None
        /\ phase' = IF fail = "none" THEN "serving" ELSE "failed"
    /\ pending.op = "none"
    /\ UNCHANGED << prog, THRESHOLD, served, pending, last >>

(***************************************************************************)
(* Calls.  A call is received with its arguments (the previous result has  *)
(* gone to its caller) and then runs as one action; what the external      *)
(* models do when invoked is drawn from the sets the action is given.      *)
(***************************************************************************)
Request(op, args) == [op |-> op, args |-> args]

\* the functions of inference_pipeline.py and the routes of predict_server.py
PipelineOps == {"infer", "full_pipeline", "check_crisis_keywords", "batch_infer", "clean_text",
                "generate_response"}
ServerOps   == {"get_emotion_scores_dict", "needs_crisis_message", "/predict",
                "/api/v1/detect-emotion", "/api/v1/generate-support", "/api/v1/chat", "/health",
                "text_preprocessing_pipeline"}

\* a function of the pipeline module is called, or a request reaches the server
Receive(requests) ==
    /\ pending.op = "none"
    /\ served < MaxCalls
    /\ \E r \in requests :
        /\ \/ prog = "pipeline" /\ r.op \in PipelineOps
           \/ prog = "server" /\ phase = "serving" /\ r.op \in ServerOps
        /\ pending' = r
    /\ last' = NoCall
    /\ UNCHANGED << prog, phase, globals, THRESHOLD, served >>

\* faulty variant: a call that fails drops the label list
DoneDroppingLabels(outcome) ==
    /\ last' = [op |-> pending.op, args |-> pending.args, outcome |-> outcome]
    /\ pending' = NoRequest
    /\ served' = served + 1
    /\ label_names' = IF outcome.status = "raised" THEN << >> ELSE label_names
    /\ UNCHANGED << prog, phase, emotion_tokenizer, emotion_model, generation_tokenizer,
                    generation_model, THRESHOLD >>

\* faulty variant: infer stores the threshold it was given as the configured one
DoneKeepingThreshold(outcome) ==
    /\ last' = [op |-> pending.op, args |-> pending.args, outcome |-> outcome]
    /\ pending' = NoRequest
    /\ served' = served + 1
    /\ THRESHOLD' = IF pending.op = "infer" /\ pending.args.threshold # << >>
                    THEN pending.args.threshold[1] ELSE THRESHOLD
    /\ UNCHANGED << prog, phase, globals >>

\* the call returns or raises
Done(outcome) ==
    /\ last' = [op |-> pending.op, args |-> pending.args, outcome |-> outcome]
    /\ pending' = NoRequest
    /\ served' = served + 1
    /\ UNCHANGED << prog, phase, globals, THRESHOLD >>

Pending(op) == pending.op = op

InferCall(clsOuts) ==
    /\ Pending("infer")
    /\ \E clsOut \in clsOuts :
        Done(Infer(pending.args.text, pending.args.threshold, clsOut))

FullPipelineCall(clsOuts, genOuts) ==
    /\ Pending("full_pipeline")
    /\ \E clsOut \in clsOuts, genOut \in genOuts :
        Done(FullPipeline(pending.args.text, pending.args.user_name,
                          pending.args.include_crisis_check, clsOut, genOut))

BatchInferCall(clsOuts, genOuts) ==
    /\ Pending("batch_infer")
    /\ \E outs \in [1..Len(pending.args.texts) -> clsOuts \X genOuts] :
        Done(BatchInfer(pending.args.texts, outs))

CleanTextCall ==
    /\ Pending("clean_text")
    /\ Done(Returned(clean_text(pending.args.text), << >>))

CheckCrisisKeywordsCall ==
    /\ Pending("check_crisis_keywords")
    /\ Done(Returned(check_crisis_keywords(pending.args.text), << >>))

GenerateResponseCall(genOuts) ==
    /\ Pending("generate_response")
    /\ \E genOut \in genOuts :
        Done(GenerateResponse(pending.args.text, pending.args.emotions, pending.args.user_name, genOut))

TextPreprocessingPipelineCall ==
    /\ Pending("text_preprocessing_pipeline")
    /\ LET calls == text_preprocessing_pipeline(pending.args.text)
       IN  Done(Returned(calls[Len(calls)].ret, calls))

HealthCall ==
    /\ Pending("/health")
    /\ Done(HealthCheck)

GetEmotionScoresDictCall(clsOuts) ==
    /\ Pending("get_emotion_scores_dict")
    /\ \E clsOut \in clsOuts :
        Done(GetEmotionScoresDict(pending.args.text, clsOut))

NeedsCrisisMessageCall ==
    /\ Pending("needs_crisis_message")
    /\ Done(Returned(needs_crisis_message(pending.args.text), << >>))

PredictCall(clsOuts, genOuts) ==
    /\ Pending("/predict")
    /\ \E clsOut \in clsOuts, genOut \in genOuts :
        Done(IF ValidText(pending.args.text, PREDICT_MAX_LENGTH)
             THEN PredictEndpoint(pending.args.userId, pending.args.diaryId, pending.args.text,
                                  clsOut, genOut)
             ELSE Http422)

DetectEmotionCall(clsOuts) ==
    /\ Pending("/api/v1/detect-emotion")
    /\ \E clsOut \in clsOuts :
        Done(IF ValidText(pending.args.text, API_MAX_LENGTH)
             THEN DetectEmotionEndpoint(pending.args.text, clsOut)
             ELSE Http422)

GenerateSupportCall(clsOuts, genOuts) ==
    /\ Pending("/api/v1/generate-support")
    /\ \E clsOut \in clsOuts, genOut \in genOuts :
        Done(IF ValidText(pending.args.text, API_MAX_LENGTH)
             THEN GenerateSupportEndpoint(pending.args.text, pending.args.emotions,
                                          pending.args.user_name, clsOut, genOut)
             ELSE Http422)

ChatCall(clsOuts, genOuts) ==
    /\ Pending("/api/v1/chat")
    /\ \E clsOut \in clsOuts, genOut \in genOuts :
        Done(IF ValidText(pending.args.text, API_MAX_LENGTH)
             THEN FullPipelineEndpoint(pending.args.text, pending.args.user_name, clsOut, genOut)
             ELSE Http422)

(***************************************************************************)
(* Spec: both programs from startup on, serving a sample of requests.      *)
(***************************************************************************)
ReqTexts ==
    { "", " ", " \n\t ", "ok", "  I'm   fine   ", "I want to die", "I WANT TO DIE",
      "I want  to die", "want\nto die", "self-harm", "a very long day here",
      "it was a very long day, again", "today was a very, very long day" }

ReqThresholds == {<< >>, Some(0), Some(7000)}
ReqUserNames  == {None, "", "Alex"}
ReqEmotions   == {None, "", "anxiety, nervousness"}
ReqClsOuts    == [1..NumLabels -> {-1, 1}] \cup {Raise}
ReqGenOuts    == {"Take one slow breath.", " Take one slow breath. \n", GenRaise}

Requests ==
    {Request("infer", [text |-> t, threshold |-> th]) : t \in ReqTexts, th \in ReqThresholds}
    \cup {Request("full_pipeline", [text |-> t, user_name |-> u, include_crisis_check |-> c]) :
            t \in ReqTexts, u \in ReqUserNames, c \in BOOLEAN}
    \cup {Request("/predict", [userId |-> "u1", diaryId |-> "d1", text |-> t]) : t \in ReqTexts}
    \cup {Request("/api/v1/detect-emotion", [text |-> t]) : t \in ReqTexts}
    \cup {Request("/api/v1/generate-support", [text |-> t, emotions |-> e, user_name |-> u]) :
            t \in ReqTexts, e \in ReqEmotions, u \in ReqUserNames}
    \cup {Request("/api/v1/chat", [text |-> t, user_name |-> u]) : t \in ReqTexts, u \in ReqUserNames}

Next ==
    \/ LoadModels
    \/ Lifespan
    \/ Receive(Requests)
    \/ InferCall(ReqClsOuts)
    \/ FullPipelineCall(ReqClsOuts, ReqGenOuts)
    \/ PredictCall(ReqClsOuts, ReqGenOuts)
    \/ DetectEmotionCall(ReqClsOuts)
    \/ GenerateSupportCall(ReqClsOuts, ReqGenOuts)
    \/ ChatCall(ReqClsOuts, ReqGenOuts)

Spec == Init /\ [][Next]_vars

\* values the environment may configure THRESHOLD to
ConfiguredThresholds == {3000, DEFAULT_THRESHOLD}

\* the state after a startup in which every load succeeded, a call of `requests` received
InitLoaded(requests) ==
    /\ prog \in {"pipeline", "server"}
    /\ phase = IF prog = "pipeline" THEN "started" ELSE "serving"
    /\ emotion_tokenizer = "loaded"
    /\ emotion_model = "loaded"
    /\ label_names = Labels
    /\ generation_tokenizer = "loaded"
    /\ generation_model = "loaded"
    /\ THRESHOLD \in ConfiguredThresholds
    /\ served = 0
    /\ pending \in {r \in requests : r.op \in (IF prog = "pipeline" THEN PipelineOps ELSE ServerOps)}
    /\ last = NoCall

(***************************************************************************)
(* SpecBatch: batch_infer from every outcome of load_models.               *)
(***************************************************************************)
BatchTexts == {"", "ok", "I want  to die"}

\* the lists of at most n texts
BatchLists(n) == UNION {[1..m -> BatchTexts] : m \in 0..n}

BatchRequests == {Request("batch_infer", [texts |-> ts]) : ts \in BatchLists(MaxBatch)}

BatchClsOuts == {[i \in 1..NumLabels |-> IF i = 2 THEN 1 ELSE -1], Raise}
BatchGenOuts == {"Take one slow breath.", GenRaise}

NextBatch ==
    \/ LoadModels
    \/ Receive(BatchRequests)
    \/ BatchInferCall(BatchClsOuts, BatchGenOuts)

SpecBatch == Init /\ [][NextBatch]_vars

(***************************************************************************)
(* SpecClean: the normalizer on texts built from words and whitespace,     *)
(* shorter and longer than the cap.                                        *)
(***************************************************************************)
CleanPieces == { " ", "\t\n", "I'm", "fine", "it was a very long day,", "again and again, and again" }

RECURSIVE CleanTextsOf(_)
\* the concatenations of at most n pieces
CleanTextsOf(n) ==
    IF n = 0 THEN {""}
    ELSE LET shorter == CleanTextsOf(n - 1)
         IN  shorter \cup {t \o p : t \in shorter, p \in CleanPieces}

CleanRequests == {Request("clean_text", [text |-> t]) : t \in CleanTextsOf(MaxCleanPieces)}

InitClean == InitLoaded(CleanRequests)

NextClean == CleanTextCall

SpecClean == InitClean /\ [][NextClean]_vars

(***************************************************************************)
(* SpecAll: every operation of both programs, from startup on.             *)
(***************************************************************************)
AllTexts == {"", "ok", "I want  to die", "it was a very long day, again"}

AllRequests ==
    {Request("infer", [text |-> t, threshold |-> th]) : t \in AllTexts, th \in ReqThresholds}
    \cup {Request("full_pipeline", [text |-> t, user_name |-> u, include_crisis_check |-> c]) :
            t \in AllTexts, u \in ReqUserNames, c \in BOOLEAN}
    \cup {Request("generate_response", [text |-> t, emotions |-> e, user_name |-> u]) :
            t \in AllTexts, e \in {<< "joy" >>, << "anger", "fear" >>}, u \in ReqUserNames}
    \cup {Request(op, [text |-> t]) :
            op \in {"clean_text", "check_crisis_keywords", "needs_crisis_message",
                    "get_emotion_scores_dict", "/api/v1/detect-emotion"},
            t \in AllTexts}
    \cup BatchRequests
    \cup {Request("/health", << >>)}
    \cup {Request("/predict", [userId |-> "u1", diaryId |-> "d1", text |-> t]) : t \in AllTexts}
    \cup {Request("/api/v1/generate-support", [text |-> t, emotions |-> e, user_name |-> u]) :
            t \in AllTexts, e \in ReqEmotions, u \in ReqUserNames}
    \cup {Request("/api/v1/chat", [text |-> t, user_name |-> u]) : t \in AllTexts, u \in ReqUserNames}

NextAll ==
    \/ LoadModels
    \/ Lifespan
    \/ Receive(AllRequests)
    \/ CleanTextCall
    \/ InferCall(ReqClsOuts)
    \/ GenerateResponseCall(ReqGenOuts)
    \/ FullPipelineCall(ReqClsOuts, ReqGenOuts)
    \/ BatchInferCall(BatchClsOuts, BatchGenOuts)
    \/ CheckCrisisKeywordsCall
    \/ HealthCall
    \/ NeedsCrisisMessageCall
    \/ GetEmotionScoresDictCall(ReqClsOuts)
    \/ PredictCall(ReqClsOuts, ReqGenOuts)
    \/ DetectEmotionCall(ReqClsOuts)
    \/ GenerateSupportCall(ReqClsOuts, ReqGenOuts)
    \/ ChatCall(ReqClsOuts, ReqGenOuts)

SpecAll == Init /\ [][NextAll]_vars

(***************************************************************************)
(* SpecLex: the lexicon normalizer on texts built from contractions in     *)
(* both spellings, misspellings, links, markup and digits.                 *)
(***************************************************************************)
LexPieces == { " ", "don't", "don" \o ACUTE \o "t", "Colour", "www.a", "a1", "[x]<b>:\n" }

RECURSIVE LexTextsOf(_)
\* the concatenations of at most n pieces
LexTextsOf(n) ==
    IF n = 0 THEN {""}
    ELSE LET shorter == LexTextsOf(n - 1)
         IN  shorter \cup {t \o p : t \in shorter, p \in LexPieces}

LexRequests == {Request("text_preprocessing_pipeline", [text |-> t]) : t \in LexTextsOf(MaxLexPieces)}

InitLex == InitLoaded(LexRequests)

NextLex == TextPreprocessingPipelineCall

SpecLex == InitLex /\ [][NextLex]_vars

(***************************************************************************)
(* SpecDecide: the decision step on every logit vector and threshold.      *)
(***************************************************************************)
Thresholds == {<< >>} \cup {Some(t) : t \in {0, 2689, 3000, 5000, 7000, 7311, ProbUnit}}

DecideRequests ==
    {Request("infer", [text |-> "ok", threshold |-> th]) : th \in Thresholds}
    \cup {Request("get_emotion_scores_dict", [text |-> "ok"])}
    \cup {Request("/api/v1/detect-emotion", [text |-> "ok"])}

InitDecide == InitLoaded(DecideRequests)

NextDecide ==
    \/ InferCall(LogitVectors)
    \/ GetEmotionScoresDictCall(LogitVectors)
    \/ DetectEmotionCall(LogitVectors)

SpecDecide == InitDecide /\ [][NextDecide]_vars

(***************************************************************************)
(* SpecCrisis: the crisis gate on texts built from pieces.                 *)
(***************************************************************************)
Pieces ==
    { " ", "\n", "x", "want ", "WANT ", "to die", "To Die", "Suicide", "kill my", "self",
      " harm", "-harm", "Over", "dose" }

RECURSIVE TextsOf(_)
\* the concatenations of at most n pieces
TextsOf(n) ==
    IF n = 0 THEN {""}
    ELSE LET shorter == TextsOf(n - 1)
         IN  shorter \cup {t \o p : t \in shorter, p \in Pieces}

CrisisRequests ==
    {Request(op, [text |-> t]) :
        op \in {"check_crisis_keywords", "needs_crisis_message"}, t \in TextsOf(MaxPieces)}

InitCrisis == InitLoaded(CrisisRequests)

NextCrisis ==
    \/ CheckCrisisKeywordsCall
    \/ NeedsCrisisMessageCall

SpecCrisis == InitCrisis /\ [][NextCrisis]_vars

(***************************************************************************)
(* Properties.                                                             *)
(***************************************************************************)
\* the last call was `op` and returned a value
ReturnedFrom(op) == last.op = op /\ last.outcome.status = "returned"

\* the last call was a decision step (infer, get_emotion_scores_dict) that returned
DecisionReturned == ReturnedFrom("infer") \/ ReturnedFrom("get_emotion_scores_dict")

\* the threshold the last decision step was asked to apply
AskedThreshold ==
    IF last.op = "infer"
    THEN (IF last.args.threshold = << >> THEN THRESHOLD ELSE last.args.threshold[1])
    ELSE SERVER_THRESHOLD

\* the labels of a score map in declaration order
DeclaredOrder(scores) == SelectSeq(label_names, LAMBDA l : l \in DOMAIN scores)

\* C1: the decision step returns a top_label whose score is maximal among all
\* labels, and the confidence it returns is scores[top_label].
C1_TopLabelMaximal ==
    DecisionReturned =>
        LET r == last.outcome.value
        IN  /\ r.top_label \in DOMAIN r.scores
            /\ \A l \in DOMAIN r.scores : r.scores[l] <= r.scores[r.top_label]
            /\ r.confidence = r.scores[r.top_label]

\* C1 witness: a decision returned over scores that are not all equal
C1_Witness ==
    /\ ReturnedFrom("get_emotion_scores_dict")
    /\ \E l \in DOMAIN last.outcome.value.scores :
        last.outcome.value.scores[l] < last.outcome.value.confidence

\* C2: the detected list is never empty, and when no label's probability is
\* above the threshold it is exactly [top_label].
C2_DetectedNonEmpty ==
    DecisionReturned =>
        LET r == last.outcome.value
        IN  /\ r.all_emotions # << >>
            /\ (\A l \in DOMAIN r.scores : r.scores[l] <= AskedThreshold)
                   => r.all_emotions = << r.top_label >>

\* C2 witness: infer returned with no score above the threshold it was given
C2_Witness ==
    /\ ReturnedFrom("infer")
    /\ last.args.threshold = Some(7311)
    /\ \A l \in DOMAIN last.outcome.value.scores : last.outcome.value.scores[l] <= 7311
    /\ last.outcome.value.confidence = 7311

\* C3: when some label's probability is strictly above the threshold, the
\* detected list is exactly the labels strictly above it, in declaration order;
\* a label whose probability equals the threshold is left out.
C3_DetectedAboveThresholdInOrder ==
    DecisionReturned =>
        LET r == last.outcome.value
        IN  (\E l \in DOMAIN r.scores : r.scores[l] > AskedThreshold)
                => r.all_emotions = SelectSeq(label_names, LAMBDA l : r.scores[l] > AskedThreshold)

\* C3 witness: a first label above the threshold, a later one with a higher
\* score, and a label exactly at the threshold
C3_Witness ==
    /\ ReturnedFrom("infer")
    /\ last.args.threshold = Some(5000)
    /\ LET r == last.outcome.value
       IN  /\ r.scores[label_names[1]] = 7311
           /\ r.scores[label_names[2]] = 5000
           /\ r.scores[label_names[3]] = ProbUnit
           /\ r.all_emotions = << label_names[1], label_names[3] >>

\* the first label, in declaration order, that holds the maximal score
FirstMaximalLabel(scores) ==
    LET order == DeclaredOrder(scores)
        k     == CHOOSE i \in 1..Len(order) :
                     /\ \A l \in DOMAIN scores : scores[l] <= scores[order[i]]
                     /\ \A j \in 1..(i - 1) : scores[order[j]] < scores[order[i]]
    IN  order[k]

\* C4: on a tie for the maximal score top_label is the first of the tied labels
\* in declaration order, in every decision implementation (violated by
\* get_emotion_scores_dict, which takes the argmax of the logits).
C4_StableArgmaxEverywhere ==
    DecisionReturned => last.outcome.value.top_label = FirstMaximalLabel(last.outcome.value.scores)

\* the text at position i reads keyword kw, letter case ignored
ReadsIgnoringCase(text, i, kw) ==
    /\ i + Len(kw) - 1 <= Len(text)
    /\ \A j \in 1..Len(kw) :
        LET a == CharAt(text, i + j - 1)
            b == CharAt(kw, j)
        IN  \/ a = b
            \/ \E n \in 1..26 : {a, b} = {CharAt(UpperAlphabet, n), CharAt(LowerAlphabet, n)}

\* C5: the crisis check is true exactly when the text contains, letter case
\* ignored, at least one phrase of the lexicon as a substring.
C5_CrisisCheckIsLexiconMatch ==
    (ReturnedFrom("check_crisis_keywords") \/ ReturnedFrom("needs_crisis_message")) =>
        last.outcome.value =
            (\E k \in 1..Len(SELF_HARM_KEYWORDS), i \in 1..Len(last.args.text) :
                ReadsIgnoringCase(last.args.text, i, SELF_HARM_KEYWORDS[k]))

\* C5 witness: a phrase in mixed case, inside a longer text, fires the check
C5_Witness ==
    /\ ReturnedFrom("check_crisis_keywords")
    /\ last.args.text = "WANT To Die"
    /\ last.outcome.value = TRUE

\* the HTTP routes that answer with a generated response
GeneratingRoutes == {"/predict", "/api/v1/generate-support", "/api/v1/chat"}

\* the last call was an HTTP request answered with status 200
Answered200(route) == ReturnedFrom(route) /\ last.outcome.value.code = 200

\* what the generator gave back in the last call (its invocation ends the trace)
GeneratorOutput == last.outcome.calls[Len(last.outcome.calls)].ret

\* the response text of the last answer and the generated text it was built from
FinalText ==
    CASE last.op = "full_pipeline" -> last.outcome.value.final_response
      [] last.op = "/predict"      -> last.outcome.value.body.summary_suggestion
      [] OTHER                     -> last.outcome.value.body.response
GeneratedText ==
    IF last.op = "full_pipeline" THEN last.outcome.value.generated_response ELSE GeneratorOutput

\* whether the crisis check the last call made came out true
CrisisCheckFired ==
    IF last.op = "full_pipeline"
    THEN last.args.include_crisis_check /\ check_crisis_keywords(last.outcome.value.cleaned_text)
    ELSE needs_crisis_message(last.args.text)

\* the last call ended with a generated response
Succeeded == ReturnedFrom("full_pipeline") \/ \E route \in GeneratingRoutes : Answered200(route)

\* the banner is prepended exactly when the crisis check fired
BannerIffFired ==
    FinalText = IF CrisisCheckFired THEN CRISIS_BANNER \o "\n\n" \o GeneratedText ELSE GeneratedText

\* C6 as stated: in every successful result of full_pipeline, /predict,
\* /api/v1/generate-support and /api/v1/chat the banner is prepended exactly
\* when the crisis check fired, and the result's crisis flag says whether it did.
C6_BannerAndFlagEverywhere ==
    Succeeded =>
        /\ BannerIffFired
        /\ IF last.op = "full_pipeline"
           THEN last.outcome.value.crisis_detected = CrisisCheckFired
           ELSE /\ "has_crisis_warning" \in DOMAIN last.outcome.value.body
                /\ last.outcome.value.body.has_crisis_warning = CrisisCheckFired

\* C6 amended: the banner is prepended exactly when the crisis check fired in
\* all four results; the crisis flag says whether it did in the results of
\* full_pipeline, /api/v1/generate-support and /api/v1/chat (the response of
\* /predict carries no crisis flag).
C6_BannerPrependedIffFired ==
    Succeeded =>
        /\ BannerIffFired
        /\ last.op = "full_pipeline" => last.outcome.value.crisis_detected = CrisisCheckFired
        /\ last.op \in {"/api/v1/generate-support", "/api/v1/chat"}
               => last.outcome.value.body.has_crisis_warning = CrisisCheckFired

\* C6 witness: /predict answers a crisis text with the banner, a blank line and
\* the generator's text as it came
C6_Witness ==
    /\ Answered200("/predict")
    /\ last.args.text = "I WANT TO DIE"
    /\ last.outcome.value.body.summary_suggestion = CRISIS_BANNER \o "\n\n" \o " Take one slow breath. \n"

\* the crisis decision the last answer shows
CrisisDecision ==
    CASE last.op = "full_pipeline" -> last.outcome.value.crisis_detected
      [] last.op = "/predict"      -> last.outcome.value.body.summary_suggestion # GeneratorOutput
      [] OTHER                     -> last.outcome.value.body.has_crisis_warning

\* C7: on every entry point the crisis decision equals the crisis check applied
\* to the normalized text (violated by the three HTTP handlers, which check the
\* text as received).
C7_CrisisDecisionOnNormalizedText ==
    (Succeeded /\ (last.op = "full_pipeline" => last.args.include_crisis_check)) =>
        CrisisDecision = check_crisis_keywords(clean_text(last.args.text))

\* every handle of the pipeline module is loaded
AllLoaded ==
    /\ emotion_tokenizer # None
    /\ emotion_model # None
    /\ generation_tokenizer # None
    /\ generation_model # None

\* C8: with the models loaded, infer and full_pipeline fail with the empty-input
\* error on a text that is empty after cleaning, and invoke no tokenizer or model.
C8_EmptyInputRejected ==
    (last.op \in {"infer", "full_pipeline"} /\ AllLoaded /\ clean_text(last.args.text) = "") =>
        /\ last.outcome.status = "raised"
        /\ last.outcome.error = ErrEmptyText
        /\ last.outcome.calls = << >>

\* C8 witness: full_pipeline raised the empty-input error on a whitespace-only text
C8_Witness ==
    /\ last.op = "full_pipeline"
    /\ AllLoaded
    /\ last.args.text = " \n\t "
    /\ last.outcome.status = "raised"
    /\ last.outcome.error = ErrEmptyText

\* C9: /predict, /api/v1/detect-emotion and /api/v1/chat reject a text that is
\* empty after cleaning before any model is called (violated: the handlers never
\* look at the cleaned text).
C9_ServerRejectsEmptyText ==
    (last.op \in {"/predict", "/api/v1/detect-emotion", "/api/v1/chat"}
        /\ last.outcome.status = "returned" /\ clean_text(last.args.text) = "") =>
        /\ last.outcome.value.code # 200
        /\ last.outcome.calls = << >>

\* a model call of the last call raised
ModelCallRaised ==
    \E i \in 1..Len(last.outcome.calls) :
        \/ last.outcome.calls[i].fn = "emotion_model" /\ last.outcome.calls[i].ret = Raise
        \/ last.outcome.calls[i].fn = "generation_model" /\ last.outcome.calls[i].ret = GenRaise

\* C10: full_pipeline ends in an error, with no result, when the classifier handle
\* or the generator handle is missing, the input is empty after cleaning or a
\* model call raises; and the errors for a missing classifier, a missing
\* generator and an empty input differ and name their cause.
C10_AllOrNothing ==
    last.op = "full_pipeline" =>
        LET o     == last.outcome
            empty == clean_text(last.args.text) = ""
        IN  /\ (emotion_model = None \/ generation_model = None \/ empty \/ ModelCallRaised)
                   => o.status = "raised"
            /\ emotion_model = None => o.error = ErrModelNotLoaded
            /\ (emotion_model # None /\ empty) => o.error = ErrEmptyText
            /\ (generation_model = None /\ Len(o.calls) = 2 /\ ~ModelCallRaised /\ label_names # << >>)
                   => o.error = ErrGenerationNotLoaded
            /\ o.status = "raised" =>
                /\ o.error = ErrModelNotLoaded => emotion_model = None
                /\ o.error = ErrEmptyText => empty
                /\ o.error = ErrGenerationNotLoaded => generation_model = None
            /\ Cardinality({ErrModelNotLoaded, ErrEmptyText, ErrGenerationNotLoaded}) = 3

\* C10 witness: the classifier ran, the generator handle is missing, and the call
\* raised the generator's error
C10_Witness ==
    /\ last.op = "full_pipeline"
    /\ generation_model = None
    /\ last.outcome.status = "raised"
    /\ last.outcome.error = ErrGenerationNotLoaded
    /\ Len(last.outcome.calls) = 2

RECURSIVE Flatten(_)
\* the concatenation of a sequence of sequences
Flatten(seqs) == IF seqs = << >> THEN << >> ELSE Head(seqs) \o Flatten(Tail(seqs))

\* C11: batch_infer on N texts returns N results in input order; the slot of an
\* item whose full_pipeline fails holds the input and the error text, every
\* other slot holds what full_pipeline returns for that item alone, and the
\* items after a failed one are still processed.
C11_BatchIsolatesFailures ==
    last.op = "batch_infer" =>
        LET texts == last.args.texts
            o     == last.outcome
        IN  /\ o.status = "returned"
            /\ Len(o.value) = Len(texts)
            /\ \A i \in 1..Len(texts) : o.value[i].input_text = texts[i]
            /\ \E outs \in [1..Len(texts) -> BatchClsOuts \X BatchGenOuts] :
                LET alone == [i \in 1..Len(texts) |->
                                 FullPipeline(texts[i], None, TRUE, outs[i][1], outs[i][2])]
                IN  /\ \A i \in 1..Len(texts) :
                           o.value[i] = IF alone[i].status = "raised"
                                        THEN [input_text |-> texts[i], error |-> alone[i].error.msg]
                                        ELSE alone[i].value
                    /\ o.calls = Flatten([i \in 1..Len(texts) |-> alone[i].calls])

\* C11 witness: the first item is empty, the second is processed to the end
C11_Witness ==
    /\ last.op = "batch_infer"
    /\ last.args.texts = << "", "ok" >>
    /\ last.outcome.value[1] = [input_text |-> "", error |-> "Empty text after cleaning"]
    /\ "final_response" \in DOMAIN last.outcome.value[2]

\* the positions of a text
Positions(text) == 1..Len(text)

\* text a is a prefix of text b
IsPrefix(a, b) == Len(a) <= Len(b) /\ SubSeq(b, 1, Len(a)) = a

\* C12: the output of clean_text has no leading or trailing whitespace, no run
\* of two whitespace characters, no whitespace other than single spaces, and
\* keeps the words of the input in order up to the cap (violated: a text cut at
\* the cap can end in a space).
C12_CleanTextNormalForm ==
    ReturnedFrom("clean_text") =>
        LET out == last.outcome.value
        IN  /\ out # "" => (~IsSpace(CharAt(out, 1)) /\ ~IsSpace(CharAt(out, Len(out))))
            /\ \A i \in Positions(out) :
                   IsSpace(CharAt(out, i)) =>
                       /\ CharAt(out, i) = " "
                       /\ i < Len(out) => ~IsSpace(CharAt(out, i + 1))
            /\ IsPrefix(out, StrJoin(" ", StrSplit(last.args.text)))

\* C13: clean_text is idempotent, also on texts longer than the cap (violated:
\* a text cut at the cap can end in a space, which a second pass strips).
C13_CleanTextIdempotent ==
    ReturnedFrom("clean_text") => clean_text(last.outcome.value) = last.outcome.value

\* C14: clean_text returns at most CLEAN_CAP characters: the first CLEAN_CAP
\* characters of the trimmed, collapsed text when that is longer, the collapsed
\* text itself otherwise; it never raises.
C14_CleanTextCapped ==
    last.op = "clean_text" =>
        LET collapsed == StrJoin(" ", StrSplit(StrStrip(last.args.text)))
            out       == last.outcome.value
        IN  /\ last.outcome.status = "returned"
            /\ Len(out) <= CLEAN_CAP
            /\ out = IF Len(collapsed) > CLEAN_CAP THEN SubSeq(collapsed, 1, CLEAN_CAP) ELSE collapsed

\* C14 witness: a text whose collapsed form is longer than the cap came back cut
C14_Witness ==
    /\ ReturnedFrom("clean_text")
    /\ last.args.text = "again and again, and again\t\nfine"
    /\ last.outcome.value = "again and again, and aga"

\* the positions of the last call's trace at which fn was invoked
CallsOf(fn) == {i \in 1..Len(last.outcome.calls) : last.outcome.calls[i].fn = fn}

\* the last call built a prompt and handed it to the generator's tokenizer
PromptBuilt == last.op # "none" /\ CallsOf("generation_tokenizer") # {}

\* the prompt the last call built
Prompt == last.outcome.calls[CHOOSE i \in CallsOf("generation_tokenizer") : TRUE].arg

\* text a is a suffix of text b
IsSuffix(a, b) == Len(a) <= Len(b) /\ SubSeq(b, Len(b) - Len(a) + 1, Len(b)) = a

\* the user_name the last call was given (the /predict handler passes None)
GivenUserName == IF "user_name" \in DOMAIN last.args THEN last.args.user_name ELSE None

\* C15: the prompt addresses the user as "friend" when user_name is None or
\* empty and as user_name followed by ", " otherwise, and nothing else in the
\* prompt comes from user_name.
C15_AddressingTerm ==
    (PromptBuilt /\ last.op \in {"full_pipeline", "/predict", "/api/v1/generate-support", "/api/v1/chat"}) =>
        LET name  == GivenUserName
            who   == IF name = None \/ name = "" THEN "friend" ELSE name \o ", "
            tail  == IF last.op = "full_pipeline" THEN PromptTail \o "\n" ELSE PromptTail
            front == SubSeq(Prompt, 1, Len(Prompt) - Len(tail) - Len(who))
        IN  /\ IsSuffix(who \o tail, Prompt)
            /\ IsSuffix("addressing the user as ", front)
            /\ who # "friend" => ~StrContains(front, name)

\* C15 witness: a prompt built for the user name "Alex"
C15_Witness ==
    /\ PromptBuilt
    /\ last.op = "/api/v1/chat"
    /\ last.args.user_name = "Alex"
    /\ IsSuffix("addressing the user as Alex, " \o PromptTail, Prompt)

\* the detected labels the last result reports, joined with ", "
ReportedEmotions ==
    CASE last.op = "full_pipeline" -> StrJoin(", ", last.outcome.value.emotion_results.all_emotions)
      [] last.op = "/predict"      -> StrJoin(", ", last.outcome.value.body.all_detected)
      [] OTHER                     -> last.outcome.value.body.emotions

\* C16: when full_pipeline, /predict or /api/v1/chat succeed, the emotion string
\* in the generator prompt is the detected label list of the same result joined
\* with ", " in the same order.
C16_PromptNamesReportedLabels ==
    (ReturnedFrom("full_pipeline") \/ Answered200("/predict") \/ Answered200("/api/v1/chat")) =>
        IsPrefix((IF last.op = "full_pipeline" THEN "\n" ELSE "")
                     \o PromptHead \o ReportedEmotions \o PromptText,
                 Prompt)

\* C16 witness: full_pipeline reported two labels, out of score order
C16_Witness ==
    /\ ReturnedFrom("full_pipeline")
    /\ Len(last.outcome.value.emotion_results.all_emotions) = 2
    /\ last.outcome.value.emotion_results.all_emotions[1] = label_names[1]

\* the stages of the last full_pipeline run are in order: the classifier is
\* given the text normalized by full_pipeline and again by infer, the generator runs only after the classifier
\* returned, each at most once, and the banner wraps the generator's text
StagesInOrder ==
    LET calls == last.outcome.calls
        cls   == CallsOf("emotion_model")
        gen   == CallsOf("generation_model")
    IN  /\ Cardinality(cls) <= 1
        /\ Cardinality(gen) <= 1
        /\ \A i \in cls : calls[i].arg = clean_text(clean_text(last.args.text))
        /\ \A j \in gen \cup CallsOf("generation_tokenizer") :
               \E i \in cls : i < j /\ calls[i].ret # Raise
        /\ last.outcome.status = "returned" =>
               /\ Cardinality(gen) = 1
               /\ \A j \in gen :
                      /\ calls[j].ret # GenRaise
                      /\ last.outcome.value.final_response \in
                             {StrStrip(calls[j].ret), CRISIS_BANNER \o "\n\n" \o StrStrip(calls[j].ret)}

\* C17 as stated: in every run of full_pipeline the stages are in order and
\* the classifier is called exactly once.
C17_ClassifierExactlyOnceInEveryRun ==
    last.op = "full_pipeline" =>
        /\ StagesInOrder
        /\ Cardinality(CallsOf("emotion_model")) = 1

\* C17 amended: in every run of full_pipeline the stages are in order; the
\* classifier is called at most once, and exactly once in the runs in which
\* the classifier and its tokenizer are loaded and the text is not empty after
\* cleaning (a run that fails before classification does not call it).
C17_StagesInOrder ==
    last.op = "full_pipeline" =>
        /\ StagesInOrder
        /\ Cardinality(CallsOf("emotion_model")) =
               IF emotion_model # None /\ emotion_tokenizer # None /\ clean_text(last.args.text) # ""
               THEN 1 ELSE 0

\* C17 witness: the classifier returned, the generator ran and the banner was
\* put before its text
C17_Witness ==
    /\ ReturnedFrom("full_pipeline")
    /\ last.outcome.value.crisis_detected
    /\ Len(last.outcome.calls) = 4
    /\ last.outcome.calls[2].fn = "emotion_model"
    /\ last.outcome.calls[4].fn = "generation_model"

\* the routes of the server that run a model
ModelRoutes == GeneratingRoutes \cup {"/api/v1/detect-emotion"}

\* C18: in every HTTP handler a failure of the classifier or of the generator is
\* answered with one HTTP 500 response that carries no result field, and each
\* model is invoked at most once per request.
C18_SingleInternalError ==
    (last.op \in ModelRoutes /\ last.outcome.status = "returned") =>
        /\ ModelCallRaised =>
               /\ last.outcome.value.code = 500
               /\ DOMAIN last.outcome.value.body = {"detail"}
        /\ Cardinality(CallsOf("emotion_model")) <= 1
        /\ Cardinality(CallsOf("generation_model")) <= 1

\* C18 witness: /predict answered 500 after the classifier returned and the
\* generator raised
C18_Witness ==
    /\ last.op = "/predict"
    /\ last.outcome.status = "returned"
    /\ last.outcome.value.code = 500
    /\ Len(last.outcome.calls) = 4
    /\ last.outcome.calls[4].ret = GenRaise

\* C19: every decision call site applies the threshold the caller supplied, or
\* the configured default THRESHOLD when none is supplied (violated by the
\* server's decision code, which compares with the literal 0.5).
C19_ThresholdNeverHardcoded ==
    DecisionReturned =>
        LET r   == last.outcome.value
            thr == IF "threshold" \in DOMAIN last.args /\ last.args.threshold # << >>
                   THEN last.args.threshold[1] ELSE THRESHOLD
            above == SelectSeq(label_names, LAMBDA l : r.scores[l] > thr)
        IN  r.all_emotions = IF above = << >> THEN << r.top_label >> ELSE above

\* what the classifier and the generator gave back in a trace (a raise when
\* they were not invoked: the result then does not depend on them)
ClsOutIn(calls) ==
    LET at == {i \in 1..Len(calls) : calls[i].fn = "emotion_model"}
    IN  IF at = {} THEN Raise ELSE calls[CHOOSE i \in at : TRUE].ret
GenOutIn(calls) ==
    LET at == {i \in 1..Len(calls) : calls[i].fn = "generation_model"}
    IN  IF at = {} THEN GenRaise ELSE calls[CHOOSE i \in at : TRUE].ret

\* the outcome of request req run on its own, the models giving back what the
\* trace calls records
RunAlone(req, calls) ==
    LET a == req.args
        c == ClsOutIn(calls)
        g == GenOutIn(calls)
    IN  CASE req.op = "infer"         -> Infer(a.text, a.threshold, c)
          [] req.op = "full_pipeline" -> FullPipeline(a.text, a.user_name, a.include_crisis_check, c, g)
          [] req.op = "/predict"      ->
                 IF ValidText(a.text, PREDICT_MAX_LENGTH)
                 THEN PredictEndpoint(a.userId, a.diaryId, a.text, c, g) ELSE Http422
          [] req.op = "/api/v1/detect-emotion" ->
                 IF ValidText(a.text, API_MAX_LENGTH) THEN DetectEmotionEndpoint(a.text, c) ELSE Http422
          [] req.op = "/api/v1/generate-support" ->
                 IF ValidText(a.text, API_MAX_LENGTH)
                 THEN GenerateSupportEndpoint(a.text, a.emotions, a.user_name, c, g) ELSE Http422
          [] req.op = "/api/v1/chat" ->
                 IF ValidText(a.text, API_MAX_LENGTH)
                 THEN FullPipelineEndpoint(a.text, a.user_name, c, g) ELSE Http422

StartupCompleted == phase # "init"

\* C21: after startup has completed no step of any operation changes the
\* classifier handle, the generator handle, their tokenizers or the label list.
C21_HandlesReadOnlyAfterStartup ==
    [][StartupCompleted => UNCHANGED globals]_vars

\* C21 witness: a started process whose labels are loaded has completed a batch
\* as its second call
C21_Witness ==
    /\ phase = "started"
    /\ served = 2
    /\ ReturnedFrom("batch_infer")
    /\ Len(last.args.texts) = 2
    /\ label_names = Labels

\* C22: the server accepts requests only after a startup in which every load
\* succeeded, and /health then reports status "healthy", models_loaded true and
\* an emotion_labels_count equal to the length of emotion_labels.
C22_HealthyWhenServing ==
    /\ phase = "serving" => AllLoaded
    /\ ReturnedFrom("/health") =>
           LET body == last.outcome.value.body
           IN  /\ last.outcome.value.code = 200
               /\ body.status = "healthy"
               /\ body.models_loaded
               /\ body.emotion_labels_count = Len(body.emotion_labels)

\* C22 witness: /health answered with the loaded label list
C22_Witness ==
    /\ ReturnedFrom("/health")
    /\ last.outcome.value.body.status = "healthy"
    /\ last.outcome.value.body.emotion_labels = Labels

\* the first position at or after `from` where needle occurs in hay, 0 if none
IndexOf(hay, needle, from) ==
    LET hits == {i \in from..(Len(hay) - Len(needle) + 1) : SubSeq(hay, i, i + Len(needle) - 1) = needle}
    IN  IF hits = {} THEN 0 ELSE CHOOSE i \in hits : \A j \in hits : i <= j

\* the user text a prompt embeds: what stands between `User text: "` and the
\* closing quote that precedes the task
EmbeddedUserText ==
    LET open  == IndexOf(Prompt, PromptText, 1) + Len(PromptText)
        close == IndexOf(Prompt, PromptTask, open)
    IN  SubSeq(Prompt, open, close - 1)

\* C25: the user text embedded in the prompt handed to the generator never
\* exceeds the prompt cap (500 characters) on any path (violated by the server:
\* craft_prompt embeds the text whole and no handler caps it first).
C25_PromptTextCapped ==
    PromptBuilt => Len(EmbeddedUserText) <= PROMPT_TEXT_CAP

\* the handler of the route ran for the last call: the request model accepted the body
HandlerRan(route) ==
    /\ last.op = route
    /\ ~(last.outcome.status = "returned" /\ last.outcome.value.code = 422)

\* the request's emotions field is absent or empty
EmotionsAbsent == last.args.emotions = None \/ last.args.emotions = ""

\* C26: in POST /api/v1/generate-support the classifier is invoked exactly when
\* the request's emotions field is absent or empty; a non-empty emotions string
\* is substituted verbatim into the generator prompt.
C26_ClassifierIffEmotionsAbsent ==
    HandlerRan("/api/v1/generate-support") =>
        /\ EmotionsAbsent <=> CallsOf("emotion_model") # {}
        /\ EmotionsAbsent <=> CallsOf("emotion_tokenizer") # {}
        /\ ~EmotionsAbsent =>
               /\ PromptBuilt
               /\ IsPrefix(PromptHead \o last.args.emotions \o PromptText, Prompt)

\* C26 witness: supplied emotions reached the prompt without the classifier
C26_Witness ==
    /\ Answered200("/api/v1/generate-support")
    /\ last.args.emotions = "anxiety, nervousness"
    /\ CallsOf("emotion_model") = {}
    /\ PromptBuilt

\* the elements of a list
Elements(seq) == {seq[i] : i \in DOMAIN seq}

\* C27: top_label is a member of the detected label list the decision step returns.
C27_TopLabelDetected ==
    DecisionReturned => last.outcome.value.top_label \in Elements(last.outcome.value.all_emotions)

\* C27 witness: no score clears the threshold and the top label, not the
\* first of the label list, is the one detected
C27_Witness ==
    /\ ReturnedFrom("infer")
    /\ \A l \in DOMAIN last.outcome.value.scores : last.outcome.value.scores[l] <= AskedThreshold
    /\ last.outcome.value.top_label = label_names[2]
    /\ last.outcome.value.all_emotions = << label_names[2] >>

\* the thresholds in use, as numbers
ThresholdValues == {th[1] : th \in Thresholds \ {<< >>}}

\* infer's detected list for the logits of the last call, had the threshold been t
DetectedAt(t) == InferDecision(label_names, ClsOutIn(last.outcome.calls), t).all_emotions

\* C28: raising the threshold never adds a detected label: for the same scores
\* and thresholds t1 <= t2, infer's detected list at t2, the top-1 fallback
\* included, is contained in its detected list at t1.
C28_ThresholdMonotone ==
    ReturnedFrom("infer") =>
        /\ last.outcome.value.all_emotions = DetectedAt(AskedThreshold)
        /\ \A t1, t2 \in ThresholdValues :
               (t1 <= t2 /\ AskedThreshold \in {t1, t2}) =>
                   Elements(DetectedAt(t2)) \subseteq Elements(DetectedAt(t1))

\* C28 witness: infer fell back to the top label at a threshold no score
\* clears, while a lower threshold detects two labels
C28_Witness ==
    /\ ReturnedFrom("infer")
    /\ AskedThreshold = 7311
    /\ Len(last.outcome.value.all_emotions) = 1
    /\ \A l \in DOMAIN last.outcome.value.scores : last.outcome.value.scores[l] <= 7311
    /\ Len(DetectedAt(2689)) = 2

\* a decision of one of the three implementations returned
AnyDecisionReturned ==
    \/ ReturnedFrom("infer")
    \/ ReturnedFrom("get_emotion_scores_dict")
    \/ Answered200("/api/v1/detect-emotion")

\* C29: for the same label list and the same raw scores, infer with threshold
\* 0.5, get_emotion_scores_dict and detect_emotions return the same detected
\* list and confidence, and infer and get_emotion_scores_dict the same
\* top_label and scores map (violated on a tie for the maximal probability:
\* infer takes the first maximal probability, the server the largest logit).
C29_ThreeDecisionsAgree ==
    AnyDecisionReturned =>
        LET logits == ClsOutIn(last.outcome.calls)
            a      == InferDecision(label_names, logits, DEFAULT_THRESHOLD)
            b      == ScoresDictDecision(label_names, logits)
            d      == DetectDecision(label_names, logits)
        IN  /\ a.all_emotions = b.all_emotions
            /\ a.all_emotions = d.all_emotions
            /\ a.confidence = b.confidence
            /\ a.confidence = d.confidence
            /\ a.top_label = b.top_label
            /\ a.scores = b.scores
            /\ (last.op = "infer" /\ AskedThreshold = DEFAULT_THRESHOLD) => last.outcome.value = a
            /\ last.op = "get_emotion_scores_dict" => last.outcome.value = b
            /\ last.op = "/api/v1/detect-emotion" =>
                   /\ last.outcome.value.body.all_emotions = d.all_emotions
                   /\ last.outcome.value.body.confidence = d.confidence

\* C30: in every successful run of full_pipeline the text tokenized and
\* classified is the cleaned_text reported in the result, which is also the
\* text of the prompt and of the crisis check, inputs beyond the length cap
\* included (violated when the capped text ends in a space: infer cleans it
\* again and classifies the text without that space).
C30_ClassifiedTextIsReported ==
    ReturnedFrom("full_pipeline") =>
        LET r == last.outcome.value
        IN  /\ \A i \in CallsOf("emotion_tokenizer") \cup CallsOf("emotion_model") :
                   last.outcome.calls[i].arg = r.cleaned_text
            /\ EmbeddedUserText = StrPrefix(r.cleaned_text, PROMPT_TEXT_CAP)
            /\ r.crisis_detected =
                   (last.args.include_crisis_check /\ check_crisis_keywords(r.cleaned_text))

\* the lexicon normalizer returned
LexReturned == ReturnedFrom("text_preprocessing_pipeline")

\* the last call ran the five stages named by order, each on what the one before returned
StagesApplied(order) ==
    LET calls == last.outcome.calls
    IN  /\ Len(calls) = Len(order)
        /\ \A i \in 1..Len(calls) :
               /\ calls[i].fn = order[i]
               /\ calls[i].arg = IF i = 1 THEN last.args.text ELSE calls[i - 1].ret
               /\ calls[i].ret = Stage(calls[i].fn, calls[i].arg)
        /\ last.outcome.value = calls[Len(calls)].ret

\* C23 as stated: the output of the lexicon normalizer is the composition
\* stripping, then punctuation and special-character mapping, then contraction
\* expansion, then spelling correction, then whitespace collapse.
C23_MappingBeforeContractions ==
    LexReturned =>
        last.outcome.value =
            remove_space(
                correct_spelling(
                    clean_contractions(
                        clean_special_chars(server_clean_text(last.args.text), punct, punct_mapping),
                        contraction_mapping),
                    mispell_dict))

\* C23 amended: the lexicon normalizer applies stripping, then contraction
\* expansion, then punctuation and special-character mapping, then spelling
\* correction, then whitespace collapse, and its output is the composition of
\* the stages in that order.
C23_StagesInCodeOrder ==
    LexReturned =>
        /\ StagesApplied(<< "clean_text", "clean_contractions", "clean_special_chars",
                            "correct_spelling", "remove_space" >>)
        /\ last.outcome.value =
               remove_space(
                   correct_spelling(
                       clean_special_chars(
                           clean_contractions(server_clean_text(last.args.text), contraction_mapping),
                           punct, punct_mapping),
                       mispell_dict))

\* C23 witness: a contraction written with the acute accent was expanded, which
\* the mapping of special characters would have prevented had it come first
C23_Witness ==
    /\ LexReturned
    /\ last.args.text = " don" \o ACUTE \o "t "
    /\ last.outcome.value = "do not"

\* C24: for every input in which a contraction of the dictionary stands between
\* spaces, the output holds the expansion between spaces (or ends of the text)
\* and holds neither the contraction nor its letters as a word (violated: the
\* first stage strips the apostrophe, so the dictionary never matches).
C24_ContractionsExpanded ==
    LexReturned =>
        \A n \in 1..Len(contraction_mapping) :
            LET word      == contraction_mapping[n][1]
                expansion == contraction_mapping[n][2]
                words     == Elements(StrSplit(last.outcome.value))
            IN  StrContains(last.args.text, " " \o word \o " ") =>
                    /\ StrContains(" " \o last.outcome.value \o " ", " " \o expansion \o " ")
                    /\ word \notin words
                    /\ RemoveChars(word, {"'"}) \notin words

=============================================================================
